---- MODULE Spec2Model ----
(***************************************************************************)
(* Model of Grompt: the instruction builder (craft_system_message,         *)
(* get_rephrased_user_prompt), the client call (rephrase_prompt) and the   *)
(* two front ends (main of Grompt.py, the "Optimize Prompt" button of      *)
(* streamlit_app.py).                                                      *)
(*                                                                         *)
(* A Python str is a sequence of lexemes.  Whitespace, punctuation and the *)
(* characters a user can type are one-character lexemes; a word or phrase  *)
(* of a template literal is one lexeme.  Every line break is the lexeme    *)
(* "\n" and every bullet is the two lexemes "-" and " ", so the line       *)
(* structure of a text is the same as in the Python string.                *)
(* A Python reference that may be None is a sequence of length at most     *)
(* one: <<>> is None and <<v>> is the value v.                             *)
(***************************************************************************)
EXTENDS Integers, Sequences, FiniteSets, TLC

(* ---------------------------- bounds ---------------------------------- *)
MaxPromptLen == 1
MaxFieldLen == 1
MaxSteps == 2
MaxRefs == 2
MaxRespLen == 3
MaxActivations == 2

(* ---------------------------- values ---------------------------------- *)
None == <<>>
Some(v) == <<v>>
Val(o) == o[1]

Chars == {"a", " ", "\n"}
WS == {" ", "\n", "\t"}
TextsUpTo(n) == UNION {[1..k -> Chars] : k \in 0..n}
ListsUpTo(S, n) == UNION {[1..k -> S] : k \in 0..n}

(* ------------------------ str methods used ---------------------------- *)
RECURSIVE lstrip(_)
lstrip(s) == IF s = <<>> \/ Head(s) \notin WS THEN s ELSE lstrip(Tail(s))

RECURSIVE rstrip(_)
rstrip(s) ==
  IF s = <<>> \/ s[Len(s)] \notin WS THEN s ELSE rstrip(SubSeq(s, 1, Len(s) - 1))

(* a strip that forgets the right end *)
strip_leading(s) == lstrip(s)

strip(s) == rstrip(lstrip(s))

RECURSIVE join(_, _)
join(sep, items) ==
  IF items = <<>> THEN <<>>
  ELSE IF Len(items) = 1 THEN items[1]
  ELSE items[1] \o sep \o join(sep, Tail(items))

RECURSIVE split(_, _)
split(s, sep) ==
  IF \A i \in 1..Len(s) : s[i] # sep THEN <<s>>
  ELSE LET i == CHOOSE j \in 1..Len(s) : s[j] = sep /\ \A k \in 1..(j - 1) : s[k] # sep
       IN <<SubSeq(s, 1, i - 1)>> \o split(SubSeq(s, i + 1, Len(s)), sep)

(* ------------------------ prompt_canvas.py ---------------------------- *)
PromptCanvas(persona, audience, task, steps, context, references, output_format, tonality) ==
  [persona |-> persona, audience |-> audience, task |-> task, steps |-> steps,
   context |-> context, references |-> references,
   output_format |-> output_format, tonality |-> tonality]

(* ------------------------ Grompt.py: builder -------------------------- *)
(* a plain template with a line break after the cue *)
get_rephrased_user_prompt_trailing(prompt) ==
  <<"You are a professional prompt engineer. Optimize this prompt by making it clearer, more concise, and more effective.",
    "\n", " ", " ", " ", " ", "User request:", " ", "\"">> \o prompt \o
  <<"\"", "\n", " ", " ", " ", " ", "Rephrased:", "\n">>

get_rephrased_user_prompt(prompt) ==
  <<"You are a professional prompt engineer. Optimize this prompt by making it clearer, more concise, and more effective.",
    "\n", " ", " ", " ", " ", "User request:", " ", "\"">> \o prompt \o
  <<"\"", "\n", " ", " ", " ", " ", "Rephrased:">>

(* bullets in the reverse order *)
Bullets_reversed(steps) == [i \in 1..Len(steps) |-> <<"-", " ">> \o steps[Len(steps) + 1 - i]]

Bullets(steps) == [i \in 1..Len(steps) |-> <<"-", " ">> \o steps[i]]

RoleSentence(c) ==
  <<"You are a", " ">> \o c.persona \o <<" ", "focused on delivering results for", " ">>
    \o c.audience \o <<".">>

TaskSection(c) == <<"Task:", " ">> \o c.task

StepsSection(c) == <<"Step-by-Step Approach:", "\n">> \o join(<<"\n">>, Bullets(Val(c.steps)))

ContextSection(c) == <<"Context:", " ">> \o c.context

ReferencesSection(c) == <<"References:", " ">> \o join(<<",", " ">>, Val(c.references))

OutputSection(c) ==
  <<"Output Requirements:", "\n", "-", " ", "Format:", " ">> \o c.output_format
    \o <<"\n", "-", " ", "Tone:", " ">> \o c.tonality

Blank == <<"\n", "\n">>

CanvasMessage(c) ==
  RoleSentence(c) \o Blank \o TaskSection(c) \o Blank \o StepsSection(c) \o Blank
    \o ContextSection(c) \o Blank \o ReferencesSection(c) \o Blank \o OutputSection(c)

(* a builder that prefers a non-empty raw prompt to the canvas *)
craft_system_message_prompt_first(canvas, prompt) ==
  IF canvas # None /\ prompt = <<>> THEN CanvasMessage(Val(canvas))
  ELSE get_rephrased_user_prompt(prompt)

(* a builder with the context before the steps *)
craft_system_message_reordered(canvas, prompt) ==
  IF canvas # None
  THEN LET c == Val(canvas)
       IN RoleSentence(c) \o Blank \o TaskSection(c) \o Blank \o ContextSection(c) \o Blank
            \o StepsSection(c) \o Blank \o ReferencesSection(c) \o Blank \o OutputSection(c)
  ELSE get_rephrased_user_prompt(prompt)

(* `if canvas:` is true of every PromptCanvas: a dataclass instance without *)
(* __bool__ and __len__ is truthy                                           *)
craft_system_message(canvas, prompt) ==
  IF canvas # None THEN CanvasMessage(Val(canvas))
  ELSE get_rephrased_user_prompt(prompt)

(* the f-string of the canvas branch iterates canvas.steps and joins       *)
(* canvas.references: None for either raises TypeError                      *)
craft_raises(canvas) ==
  canvas # None /\ (Val(canvas).steps = None \/ Val(canvas).references = None)

craft_error(canvas) ==
  IF Val(canvas).steps = None THEN <<"'NoneType' object is not iterable">>
  ELSE <<"can only join an iterable">>

(* a wrapper that drops the description of the original error *)
PromptEngineeringError_bare(e) == <<"Prompt engineering error:">>

PromptEngineeringError(e) == <<"Prompt engineering error:", " ">> \o e

(* ------------------------ external collaborators ---------------------- *)
NoKey == ""
Keys == {NoKey, "gsk"}
Surfaces == {"cli", "form", "lib"}

(* descriptions of the errors the provider's generate call can raise *)
ProviderErrors == {<<"Connection error.">>, <<"Invalid API Key">>, <<>>}
APIKeyMissing == <<"API key not found">>
ImportFailure == <<"No module named 'pocketgroq'">>

(* texts the provider can return *)
Responses == TextsUpTo(MaxRespLen)

(* ------------------------ inputs --------------------------------------- *)
Prompts == TextsUpTo(MaxPromptLen)
Fields == TextsUpTo(MaxFieldLen)
Audiences == {<<>>, <<"a">>}
StepTexts == {<<>>, <<"a">>, <<"a", "a">>, <<"a", "\n", "-", " ", "a">>}
StepLists == ListsUpTo(StepTexts, MaxSteps)
RefLists == ListsUpTo({<<"a">>}, MaxRefs)
OutputFormats == {<<"Natural Text">>, <<"Technical Documentation">>, <<"Code">>, <<"Markdown">>}

(* canvases a caller of the library can pass: any field contents, and the  *)
(* None that streamlit_app.PromptCanvas has as default for both lists      *)
Canvases ==
  {PromptCanvas(pe, au, <<"a">>, st, <<>>, re, <<"Code">>, <<"a">>) :
     pe \in Fields, au \in Audiences,
     st \in {None} \cup {Some(l) : l \in StepLists},
     re \in {None} \cup {Some(l) : l \in RefLists}}

(* the canvases the direct caller passes while the whole call is followed *)
LibCanvases ==
  {PromptCanvas(<<"a">>, <<>>, <<"a">>, st, <<>>, re, <<"Code">>, <<"a">>) :
     st \in {None, Some(<<>>), Some(<<<<"a">>>>)}, re \in {None, Some(<<>>)}}

VARIABLES
  surface,         \* the front end that runs: "cli", "form" or "lib" (a direct caller)
  env_key,         \* os.environ['GROQ_API_KEY'] ("" when unset)
  GROQ_API_KEY,    \* st.secrets["groq_api_key"] of the form
  pc,              \* position inside rephrase_prompt
  prompt,          \* argument of rephrase_prompt
  canvas,          \* argument of rephrase_prompt (None or a PromptCanvas)
  system_message,  \* local of rephrase_prompt
  response,        \* what groq.generate returned (None before it returns)
  cause,           \* description of the exception caught at line 55 (None if none)
  result,          \* value rephrase_prompt returned (None if it did not return)
  error,           \* message of the exception rephrase_prompt raised (None if none)
  requests,        \* number of groq.generate calls of the current invocation
  log,             \* calls made by the current invocation, in order
  calls,           \* number of rephrase_prompt calls of the current activation
  out,             \* what the front end shows for the current activation
  widgets,         \* the form's two prompt fields at the last button press
  activations      \* number of activations (runs of main, button presses, direct calls)

vars == <<surface, env_key, GROQ_API_KEY, pc, prompt, canvas, system_message, response,
          cause, result, error, requests, log, calls, out, widgets, activations>>

Widget(kind, text) == [kind |-> kind, text |-> text]
NoWidgets == [user_prompt |-> <<>>, canvas_prompt |-> <<>>, import_ok |-> TRUE]

Init ==
  /\ surface \in Surfaces
  /\ env_key \in Keys
  /\ GROQ_API_KEY \in IF surface = "form" THEN Keys ELSE {NoKey}
  /\ pc = "idle"
  /\ prompt = <<>>
  /\ canvas = None
  /\ system_message = <<>>
  /\ response = None
  /\ cause = None
  /\ result = None
  /\ error = None
  /\ requests = 0
  /\ log = <<>>
  /\ calls = 0
  /\ out = <<>>
  /\ widgets = NoWidgets
  /\ activations = 0

(* entry of rephrase_prompt(p, ..., canvas=c) *)
Enter(p, c) ==
  /\ pc' = "called"
  /\ prompt' = p
  /\ canvas' = c
  /\ system_message' = <<>>
  /\ response' = None
  /\ cause' = None
  /\ result' = None
  /\ error' = None
  /\ requests' = 0
  /\ log' = <<>>
  /\ calls' = 1

(* an activation that ends without calling rephrase_prompt *)
NoCall(shown) ==
  /\ pc' = "idle"
  /\ out' = shown
  /\ calls' = 0
  /\ result' = None
  /\ error' = None
  /\ requests' = 0
  /\ log' = <<>>
  /\ UNCHANGED <<prompt, canvas, system_message, response, cause>>

(* leaving rephrase_prompt: its locals go out of scope *)
Leave ==
  /\ pc' = "idle"
  /\ prompt' = <<>>
  /\ canvas' = None
  /\ system_message' = <<>>
  /\ response' = None
  /\ cause' = None

(* ------------------------ Grompt.py: rephrase_prompt ------------------ *)
(* line 44: groq = GroqProvider(); raises when no API key is configured *)
GroqProvider ==
  /\ pc = "called"
  /\ log' = Append(log, "GroqProvider")
  /\ IF env_key = NoKey
     THEN /\ pc' = "failed"
          /\ cause' = Some(APIKeyMissing)
          /\ error' = Some(PromptEngineeringError(APIKeyMissing))
     ELSE /\ pc' = "constructed"
          /\ UNCHANGED <<cause, error>>
  /\ UNCHANGED <<surface, env_key, GROQ_API_KEY, prompt, canvas, system_message, response,
                 result, requests, calls, out, widgets, activations>>

(* a builder call outside the try block: its error is not wrapped *)
Build_unwrapped ==
  /\ pc = "constructed"
  /\ log' = Append(log, "craft_system_message")
  /\ IF craft_raises(canvas)
     THEN /\ pc' = "failed"
          /\ cause' = Some(craft_error(canvas))
          /\ error' = Some(craft_error(canvas))
          /\ UNCHANGED system_message
     ELSE /\ pc' = "built"
          /\ system_message' = craft_system_message(canvas, prompt)
          /\ UNCHANGED <<cause, error>>
  /\ UNCHANGED <<surface, env_key, GROQ_API_KEY, prompt, canvas, response,
                 result, requests, calls, out, widgets, activations>>

(* line 45: system_message = craft_system_message(canvas, prompt) *)
Build ==
  /\ pc = "constructed"
  /\ log' = Append(log, "craft_system_message")
  /\ IF craft_raises(canvas)
     THEN /\ pc' = "failed"
          /\ cause' = Some(craft_error(canvas))
          /\ error' = Some(PromptEngineeringError(craft_error(canvas)))
          /\ UNCHANGED system_message
     ELSE /\ pc' = "built"
          /\ system_message' = craft_system_message(canvas, prompt)
          /\ UNCHANGED <<cause, error>>
  /\ UNCHANGED <<surface, env_key, GROQ_API_KEY, prompt, canvas, response,
                 result, requests, calls, out, widgets, activations>>

(* lines 47-52: the request goes out *)
Generate ==
  /\ pc = "built"
  /\ pc' = "inflight"
  /\ requests' = requests + 1
  /\ log' = Append(log, "generate")
  /\ UNCHANGED <<surface, env_key, GROQ_API_KEY, prompt, canvas, system_message, response,
                 cause, result, error, calls, out, widgets, activations>>

(* lines 47-54: generate returns r; return response.strip() *)
ProviderReturn(r) ==
  /\ pc = "inflight"
  /\ pc' = "succeeded"
  /\ response' = Some(r)
  /\ result' = Some(strip(r))
  /\ UNCHANGED <<surface, env_key, GROQ_API_KEY, prompt, canvas, system_message,
                 cause, error, requests, log, calls, out, widgets, activations>>

(* a handler that sends the request again after a failure *)
ProviderRaise_retry(e) ==
  /\ pc = "inflight"
  /\ pc' = "built"
  /\ UNCHANGED <<surface, env_key, GROQ_API_KEY, prompt, canvas, system_message, response,
                 cause, result, error, requests, log, calls, out, widgets, activations>>

(* lines 55-56: generate raises e; raise Exception(f"Prompt engineering error: {str(e)}") *)
ProviderRaise(e) ==
  /\ pc = "inflight"
  /\ pc' = "failed"
  /\ cause' = Some(e)
  /\ error' = Some(PromptEngineeringError(e))
  /\ UNCHANGED <<surface, env_key, GROQ_API_KEY, prompt, canvas, system_message, response,
                 result, requests, log, calls, out, widgets, activations>>

(* ------------------------ Grompt.py: main ----------------------------- *)
(* lines 58-68: parse the arguments and call rephrase_prompt(args.prompt, ...) *)
main(p) ==
  /\ surface = "cli"
  /\ pc = "idle"
  /\ activations < MaxActivations
  /\ activations' = activations + 1
  /\ out' = <<>>
  /\ Enter(p, None)
  /\ UNCHANGED <<surface, env_key, GROQ_API_KEY, widgets>>

(* lines 69-72: print the result, or "Error: <message>" *)
main_print ==
  /\ surface = "cli"
  /\ pc \in {"succeeded", "failed"}
  /\ out' = IF pc = "succeeded"
            THEN <<Widget("print", <<"Rephrased prompt:">>), Widget("print", Val(result))>>
            ELSE <<Widget("print", <<"Error:", " ">> \o Val(error))>>
  /\ Leave
  /\ UNCHANGED <<surface, env_key, GROQ_API_KEY, result, error, requests, log, calls,
                 widgets, activations>>

(* ------------------------ a direct caller of the library -------------- *)
call_rephrase_prompt(p, c) ==
  /\ surface = "lib"
  /\ pc = "idle"
  /\ activations < MaxActivations
  /\ activations' = activations + 1
  /\ out' = <<>>
  /\ Enter(p, c)
  /\ UNCHANGED <<surface, env_key, GROQ_API_KEY, widgets>>

call_returns ==
  /\ surface = "lib"
  /\ pc \in {"succeeded", "failed"}
  /\ Leave
  /\ UNCHANGED <<surface, env_key, GROQ_API_KEY, result, error, requests, log, calls, out,
                 widgets, activations>>

(* ------------------------ streamlit_app.py ---------------------------- *)
(* Lines 41-43 of the script do not parse as written (an indented keyword  *)
(* argument and a closing parenthesis are left behind st.title).  The      *)
(* button handler is modelled as written from line 90 on, as it runs once  *)
(* these three lines are repaired.                                         *)
(* lines 108, 110: [s.strip() for s in text.split('\n') if s.strip()] *)
StrippedLines(text) ==
  LET lines == split(text, "\n")
      kept == SelectSeq(lines, LAMBDA s : strip(s) # <<>>)
  IN [i \in 1..Len(kept) |-> strip(kept[i])]

FormTexts == {<<>>, <<"a">>}
FormLists == {<<>>, <<" ", "a", "\n", "\n", "a", " ">>, <<"a", " ", "a">>}
FormRefs == {<<>>, <<"a", "\n">>}

(* a handler that looks at the basic prompt field only *)
Branch_basic_only(key, user_prompt, canvas_prompt) ==
  IF key = NoKey THEN "no key"
  ELSE IF user_prompt # <<>> THEN "optimize"
  ELSE "no prompt"

(* lines 91, 93, 125: the if / elif / else of the button handler *)
Branch(key, user_prompt, canvas_prompt) ==
  IF key = NoKey THEN "no key"
  ELSE IF user_prompt # <<>> \/ canvas_prompt # <<>> THEN "optimize"
  ELSE "no prompt"

(* lines 90-120: the button handler up to the call of rephrase_prompt *)
OptimizePrompt(user_prompt, canvas_prompt, persona, audience, steps, references, output_format, import_ok) ==
  /\ surface = "form"
  /\ pc = "idle"
  /\ activations < MaxActivations
  /\ activations' = activations + 1
  /\ widgets' = [user_prompt |-> user_prompt, canvas_prompt |-> canvas_prompt,
                 import_ok |-> import_ok]
  /\ IF Branch(GROQ_API_KEY, user_prompt, canvas_prompt) = "no key"
     THEN /\ NoCall(<<Widget("st.error", <<"Please enter your GROQ API Key in the sidebar.">>)>>)
          /\ UNCHANGED env_key
     ELSE IF Branch(GROQ_API_KEY, user_prompt, canvas_prompt) = "optimize"
     THEN /\ env_key' = GROQ_API_KEY
          /\ IF ~import_ok
             THEN NoCall(<<Widget("st.error", <<"Unable to import 'Grompt':", " ">> \o ImportFailure)>>)
             ELSE /\ out' = <<Widget("st.spinner", <<"Optimizing prompt...">>)>>
                  /\ IF canvas_prompt # <<>>
                     THEN Enter(canvas_prompt,
                                Some(PromptCanvas(persona, audience, <<"a">>,
                                                  Some(StrippedLines(steps)), <<>>,
                                                  Some(StrippedLines(references)),
                                                  output_format, <<"a">>)))
                     ELSE Enter(user_prompt, None)
     ELSE /\ NoCall(<<Widget("st.warning", <<"Please enter a prompt to optimize.">>)>>)
          /\ UNCHANGED env_key
  /\ UNCHANGED <<surface, GROQ_API_KEY>>

(* lines 122-124: a non-empty result is written; an exception of            *)
(* rephrase_prompt is not caught by the script and ends the run             *)
OptimizePrompt_render ==
  /\ surface = "form"
  /\ pc \in {"succeeded", "failed"}
  /\ out' = IF pc = "failed" THEN <<Widget("uncaught exception", Val(error))>>
            ELSE IF Val(result) # <<>>
            THEN <<Widget("st.subheader", <<"Optimized Prompt:">>), Widget("st.write", Val(result))>>
            ELSE <<>>
  /\ Leave
  /\ UNCHANGED <<surface, env_key, GROQ_API_KEY, result, error, requests, log, calls,
                 widgets, activations>>

Next ==
  \/ \E p \in Prompts : main(p)
  \/ main_print
  \/ \E p \in Prompts, c \in {None} \cup {Some(lc) : lc \in LibCanvases} : call_rephrase_prompt(p, c)
  \/ call_returns
  \/ \E up \in FormTexts, cp \in FormTexts, pe \in FormTexts, au \in FormTexts,
        st \in FormLists, re \in FormRefs, of \in OutputFormats, ok \in BOOLEAN :
        OptimizePrompt(up, cp, pe, au, st, re, of, ok)
  \/ OptimizePrompt_render
  \/ GroqProvider
  \/ Build
  \/ Generate
  \/ \E r \in Responses : ProviderReturn(r)
  \/ \E e \in ProviderErrors : ProviderRaise(e)

Spec == Init /\ [][Next]_vars

(* the builder alone, on every canvas and prompt: rephrase_prompt entered  *)
(* by a direct caller, the client constructed, line 45 about to run        *)
InitBuild ==
  /\ surface = "lib"
  /\ env_key = "gsk"
  /\ GROQ_API_KEY = NoKey
  /\ pc = "constructed"
  /\ prompt \in Prompts
  /\ canvas \in {None} \cup {Some(c) : c \in Canvases}
  /\ system_message = <<>>
  /\ response = None
  /\ cause = None
  /\ result = None
  /\ error = None
  /\ requests = 0
  /\ log = <<"GroqProvider">>
  /\ calls = 1
  /\ out = <<>>
  /\ widgets = NoWidgets
  /\ activations = 1

NextBuild == Build

SpecBuild == InitBuild /\ [][NextBuild]_vars
(* ======================= properties ==================================== *)
Contains(s, t) == \E i \in 0..(Len(s) - Len(t)) : SubSeq(s, i + 1, i + Len(t)) = t
Count(s, l) == Cardinality({i \in 1..Len(s) : s[i] = l})
Pos(s, l) == CHOOSE i \in 1..Len(s) : s[i] = l
IsPrefix(s, t) == Len(s) <= Len(t) /\ SubSeq(t, 1, Len(s)) = s
AllWS(s) == \A i \in 1..Len(s) : s[i] \in WS
CallOrder == <<"GroqProvider", "craft_system_message", "generate">>
Wrapped(e) == <<"Prompt engineering error:", " ">> \o e

(* C1: when the provider's generate call fails, the caller gets one error  *)
(* whose message is the generic prefix followed by the original error's    *)
(* description, and no normal result.                                      *)
C1_ProviderFailureWrapped ==
  (pc = "failed" /\ requests = 1) =>
     /\ cause # None /\ error # None /\ Len(error) = 1
     /\ result = None
     /\ Head(Val(error)) = "Prompt engineering error:"
     /\ Len(Val(error)) >= Len(Val(cause)) + 1
     /\ SubSeq(Val(error), Len(Val(error)) - Len(Val(cause)) + 1, Len(Val(error))) = Val(cause)

C1_Witness == pc = "failed" /\ requests = 1 /\ cause = Some(<<"Connection error.">>)

(* C2 as stated: every invocation that ended has issued exactly one        *)
(* generate request.                                                       *)
C2_ExactlyOneRequest == pc \in {"succeeded", "failed"} => requests = 1

(* C2 amended: an invocation issues at most one generate request, exactly  *)
(* one once the client is constructed and the instruction built, and none  *)
(* when one of these raises; a failed request is not retried; an           *)
(* invocation ends in exactly one of succeeded (a text) or failed (an      *)
(* error).                                                                 *)
C2_AtMostOneRequest ==
  /\ requests <= 1
  /\ IsPrefix(log, CallOrder)
  /\ requests = Count(log, "generate")
  /\ pc \in {"inflight", "succeeded"} => requests = 1
  /\ pc = "succeeded" => result # None /\ error = None
  /\ pc = "failed" => error # None /\ result = None
  /\ (pc = "failed" /\ requests = 0) => log \in {<<"GroqProvider">>, <<"GroqProvider", "craft_system_message">>}
  /\ (pc = "idle" /\ calls = 1) => (result = None) # (error = None)

C2_Witness == pc = "failed" /\ requests = 1 /\ log = CallOrder

(* C3: with the credential missing, on the command line and in the form,   *)
(* the user is told before any provider call and no generic wrapped        *)
(* generation error is raised.                                             *)
CredentialMissing ==
  \/ surface = "cli" /\ env_key = NoKey
  \/ surface = "form" /\ GROQ_API_KEY = NoKey

C3_MissingCredentialIsPrecondition ==
  CredentialMissing =>
     /\ requests = 0
     /\ error = None
     /\ (pc = "idle" /\ activations > 0) => (out # <<>> /\ out[1].text[1] # "Error:")

(* C4: with a canvas the built instruction is the same for every raw       *)
(* prompt, and the plain instruction is built only without a canvas.       *)
C4_CanvasWins ==
  pc = "built" =>
     /\ canvas # None => \A p \in Prompts : system_message = craft_system_message(canvas, p)
     /\ (Count(system_message, "Rephrased:") > 0) <=> (canvas = None)

C4_Witness == pc = "built" /\ canvas # None /\ prompt = <<"a">>

(* C5: the canvas instruction starts with the role sentence holding the    *)
(* persona and the audience and then has each of "Task:", "Step-by-Step    *)
(* Approach:", "Context:", "References:", "Output Requirements:" once, in  *)
(* this order.                                                             *)
SectionLabels ==
  <<"You are a", "focused on delivering results for", "Task:", "Step-by-Step Approach:",
    "Context:", "References:", "Output Requirements:">>

C5_SectionsInOrder ==
  (pc = "built" /\ canvas # None) =>
     LET m == system_message
         c == Val(canvas)
         at(k) == Pos(m, SectionLabels[k])
     IN /\ \A k \in 1..Len(SectionLabels) : Count(m, SectionLabels[k]) = 1
        /\ at(1) = 1
        /\ \A k \in 1..(Len(SectionLabels) - 1) : at(k) < at(k + 1)
        /\ SubSeq(m, 3, at(2) - 2) = c.persona
        /\ SubSeq(m, at(2) + 2, at(3) - 4) = c.audience

C5_Witness ==
  /\ pc = "built" /\ canvas # None
  /\ Val(canvas).persona = <<>> /\ Val(canvas).audience = <<"a">>
  /\ Val(canvas).steps = Some(<<>>) /\ Val(canvas).references = Some(<<>>)

(* the body of the steps section: what stands between the line of the      *)
(* label and the blank line before "Context:"                              *)
StepsBody(m) == SubSeq(m, Pos(m, "Step-by-Step Approach:") + 2, Pos(m, "Context:") - 3)
IsBulleted(line) == Len(line) >= 2 /\ line[1] = "-" /\ line[2] = " "
BulletedLines(text) == SelectSeq(split(text, "\n"), IsBulleted)
Expected(steps) == [i \in 1..Len(steps) |-> <<"-", " ">> \o steps[i]]
NoLineBreak(steps) == \A i \in 1..Len(steps) : Count(steps[i], "\n") = 0

(* C6 as stated: the bulleted lines of the steps section are the lines     *)
(* "- <step>", one per element of steps, in order.                         *)
C6_OneBulletedLinePerStep ==
  (pc = "built" /\ canvas # None) =>
     BulletedLines(StepsBody(system_message)) = Expected(Val(Val(canvas).steps))

(* C6 amended: the steps section is the elements of steps, each after      *)
(* "- ", separated by line breaks, in order; when no step holds a line     *)
(* break these are its lines, one bulleted line per element; for no steps  *)
(* the section is empty and the instruction is still built.                *)
C6_OneBulletPerStep ==
  (pc = "built" /\ canvas # None) =>
     LET steps == Val(Val(canvas).steps)
         body == StepsBody(system_message)
     IN /\ body = join(<<"\n">>, Expected(steps))
        /\ NoLineBreak(steps) =>
              /\ BulletedLines(body) = Expected(steps)
              /\ steps # <<>> => split(body, "\n") = Expected(steps)
        /\ steps = <<>> => body = <<>>

C6_Witness ==
  /\ pc = "built" /\ canvas # None
  /\ Val(canvas).steps = Some(<<<<"a">>, <<"a", "a">>>>)

(* C7: the plain instruction holds the raw prompt unchanged between        *)
(* quotation marks and ends with the cue "Rephrased:", alone on the last   *)
(* line after its indentation, with nothing behind it.                     *)
C7_PlainEndsWithCue ==
  (pc = "built" /\ canvas = None) =>
     LET m == system_message
         lines == split(m, "\n")
     IN /\ Contains(m, <<"User request:", " ", "\"">> \o prompt \o <<"\"", "\n">>)
        /\ m[Len(m)] = "Rephrased:"
        /\ Count(m, "Rephrased:") = 1
        /\ lstrip(lines[Len(lines)]) = <<"Rephrased:">>

C7_Witness == pc = "built" /\ canvas = None /\ prompt = <<"a">>

(* C8: the returned text is the provider's response without its leading    *)
(* and trailing whitespace: it neither begins nor ends with whitespace     *)
(* and the response is whitespace, the result, whitespace.                 *)
C8_ResultIsStripped ==
  pc = "succeeded" =>
     LET r == Val(response)
         t == Val(result)
     IN /\ t # <<>> => (t[1] \notin WS /\ t[Len(t)] \notin WS)
        /\ \E i \in 0..Len(r) :
              /\ i + Len(t) <= Len(r)
              /\ AllWS(SubSeq(r, 1, i))
              /\ SubSeq(r, i + 1, i + Len(t)) = t
              /\ AllWS(SubSeq(r, i + Len(t) + 1, Len(r)))

C8_Witness == pc = "succeeded" /\ response = Some(<<" ", "a", "\n">>) /\ result = Some(<<"a">>)

(* C9 as stated: every finished activation of the button has made exactly  *)
(* one optimize call and shows its result or an error message.             *)
Shown(kinds) == [i \in 1..Len(out) |-> out[i].kind] = kinds

C10_BuildFailureWrapped ==
  /\ IsPrefix(log, CallOrder)
  /\ pc = "constructed" => log = <<"GroqProvider">>
  /\ pc = "built" => log = <<"GroqProvider", "craft_system_message">>
  /\ pc = "failed" =>
        /\ error = Some(Wrapped(Val(cause)))
        /\ result = None
        /\ (requests = 0) <=> (Count(log, "generate") = 0)
  /\ (pc = "failed" /\ Len(log) < 3) => requests = 0

C10_Witness ==
  /\ pc = "failed" /\ requests = 0 /\ log = <<"GroqProvider", "craft_system_message">>
  /\ cause = Some(<<"'NoneType' object is not iterable">>)
====
